---- MODULE Spec2Model ----
(***************************************************************************)
(* Litflix backend (IndubalaSV/cultmagic): the auth router, the saved      *)
(* items router and the recommendation router over one relational store.   *)
(*                                                                         *)
(* A worker runs one request at a time.  A handler that writes is two      *)
(* steps, its reads and then its commit, so that the requests of two       *)
(* workers sharing the store interleave between the existence check and    *)
(* the commit.  A handler that only reads is one step.                     *)
(***************************************************************************)
EXTENDS Integers, Sequences, FiniteSets, TLC

\* ------------------------------------------------------------- bounds
NumWorkers == 2
MaxTime == 2
MaxUserId == 2
MaxPrefId == 2
MaxItemId == 3
MaxRecords == 2

\* ------------------------------------------------------------- values
None == "None"

Workers == 1..NumWorkers
Usernames == {"alice", "bob"}
Emails == {"a@x.com", "b@x.com"}
Passwords == {"pw123", "hunter2"}
RegisterPasswords == {"pw123"}
\* the accounts of the saved items and recommendation scenarios
SavedAccounts ==
    { [username |-> "alice", email |-> "a@x.com", password |-> "pw123"],
      [username |-> "bob", email |-> "b@x.com", password |-> "pw123"] }

\* HTTP status codes used by the handlers
HTTP_200_OK == 200
HTTP_400_BAD_REQUEST == 400
HTTP_401_UNAUTHORIZED == 401
HTTP_404_NOT_FOUND == 404
HTTP_500_INTERNAL_SERVER_ERROR == 500

Get(d, k) == IF k \in DOMAIN d THEN d[k] ELSE None
EmptyDict == [k \in {} |-> None]
Truthy(v) == v # None /\ v # ""

\* ------------------------------------------------ app/auth.py (not in src/)
\* ttl of a token, in ticks of the model's clock
ACCESS_TOKEN_EXPIRE_MINUTES == 1

PwCode(pw) == CASE pw = "pw123" -> 1 [] pw = "hunter2" -> 2 [] OTHER -> 3
Digest(pw, salt) == (PwCode(pw) * 7 + salt * 3) % 11
Salts == {1}

\* a salted one-way hash: the salt and the digest of password and salt
get_password_hash(pw, salt) == [salt |-> salt, digest |-> Digest(pw, salt)]
verify_password(pw, hashed) == Digest(pw, hashed.salt) = hashed.digest

\* a signed claim set {sub, exp}
create_access_token(sub, t) ==
    [sub |-> sub, exp |-> t + ACCESS_TOKEN_EXPIRE_MINUTES, sig |-> "server"]

Malformed == [sub |-> None, exp |-> 0, sig |-> "none"]
Forged == [sub |-> "alice", exp |-> MaxTime + ACCESS_TOKEN_EXPIRE_MINUTES + 1, sig |-> "forged"]

\* the username, or None when the signature is invalid, the token is
\* malformed or it has expired
verify_token(token, t) ==
    IF token.sig # "server" \/ token.exp <= t THEN None ELSE token.sub

\* ------------------------------------------------------------- state
VARIABLES
    users,             \* table users: rows [id, username, email, hashed_password]
    user_preferences,  \* table user_preferences
    saved_items,       \* table saved_items
    nextId,            \* the next primary key of each table
    now,               \* wall clock
    tokens,            \* the bearer tokens the clients hold: per username the latest issued
    QLOO_API_KEY,      \* the upstream API key of the environment, or None
    req,               \* per worker: the request it runs, and where it is
    resp               \* per worker: the response to its last request

vars == <<users, user_preferences, saved_items, nextId, now, tokens, QLOO_API_KEY, req, resp>>
db == <<users, user_preferences, saved_items, nextId>>

NoReq == [op |-> "none", pc |-> "done", args |-> EmptyDict, pending |-> EmptyDict]
NoResp == [status |-> 0, body |-> [detail |-> ""]]

Response(status, body) == [status |-> status, body |-> body]
HTTPException(status, detail) == [status |-> status, body |-> [detail |-> detail]]

\* the credentials a client can present: an issued token, a token signed
\* with another key, or a string that is no token
Credentials == tokens \cup {Forged, Malformed}

\* the client of a username replaces its token by the one just issued
Keep(held, token) == {t \in held : t.sub # token.sub} \cup {token}

\* os.getenv("QLOO_API_KEY"): set, or absent
ApiKeys == {None, "qloo-key"}

Init ==
    /\ users = {}
    /\ user_preferences = {}
    /\ saved_items = {}
    /\ nextId = [users |-> 1, user_preferences |-> 1, saved_items |-> 1]
    /\ now = 0
    /\ tokens = {}
    /\ QLOO_API_KEY \in ApiKeys
    /\ req = [p \in Workers |-> NoReq]
    /\ resp = [p \in Workers |-> NoResp]

Ready(p) == req[p].pc = "done"

Finish(p, op, args, r) ==
    /\ req' = [req EXCEPT ![p] = [op |-> op, pc |-> "done", args |-> args, pending |-> EmptyDict]]
    /\ resp' = [resp EXCEPT ![p] = r]

Suspend(p, op, args, pending) ==
    /\ req' = [req EXCEPT ![p] = [op |-> op, pc |-> "commit", args |-> args, pending |-> pending]]
    /\ resp' = [resp EXCEPT ![p] = NoResp]

\* ------------------------------------------------------------- the store
\* db.query(User).filter(User.username == username).first()
UserFound(username) == \E u \in users : u.username = username
UserByName(username) == CHOOSE u \in users : u.username = username

\* the unique indexes of users.email and users.username
UsersUniqueOk(row) ==
    \A u \in users : u.username # row.username /\ u.email # row.email

\* the foreign key users.id of user_preferences and saved_items
UserIdExists(id) == \E u \in users : u.id = id

\* removal of an account with its preferences and saved items
DeleteAccount ==
    /\ \E u \in users :
        /\ users' = users \ {u}
        /\ user_preferences' = {r \in user_preferences : r.user_id # u.id}
        /\ saved_items' = {r \in saved_items : r.user_id # u.id}
    /\ UNCHANGED <<nextId, now, tokens, req, resp, QLOO_API_KEY>>

Tick ==
    /\ now < MaxTime
    /\ now' = now + 1
    /\ UNCHANGED <<db, tokens, req, resp, QLOO_API_KEY>>

\* ------------------------------------------------------------- POST /register
RegisterExisting_UsernameOnly(username, email) ==
    \E u \in users : u.username = username

RegisterExisting(username, email) ==
    \E u \in users : u.username = username \/ u.email = email

RegisterUser(id, args, hashed) ==
    [id |-> id, username |-> args.username, email |-> args.email,
     hashed_password |-> hashed]

RegisterToken_EmailSubject(db_user, t) == create_access_token(db_user.email, t)

RegisterToken(db_user, t) == create_access_token(db_user.username, t)

RegisterCheck(p, username, email, password) ==
    /\ Ready(p)
    /\ nextId.users <= MaxUserId
    /\ LET args == [username |-> username, email |-> email, password |-> password] IN
       IF RegisterExisting(username, email)
       THEN Finish(p, "register", args,
                   HTTPException(HTTP_400_BAD_REQUEST, "Username or email already registered"))
       ELSE \E salt \in Salts :
               Suspend(p, "register", args,
                       [hashed_password |-> get_password_hash(password, salt)])
    /\ UNCHANGED <<db, now, tokens, QLOO_API_KEY>>

RegisterCommit(p) ==
    /\ req[p].op = "register" /\ req[p].pc = "commit"
    /\ LET db_user == RegisterUser(nextId.users, req[p].args, req[p].pending.hashed_password) IN
       IF UsersUniqueOk(db_user)
       THEN /\ users' = users \cup {db_user}
            /\ nextId' = [nextId EXCEPT !.users = @ + 1]
            /\ tokens' = Keep(tokens, RegisterToken(db_user, now))
            /\ Finish(p, "register", req[p].args,
                      Response(HTTP_200_OK, [access_token |-> RegisterToken(db_user, now),
                                             token_type |-> "bearer"]))
       ELSE \* IntegrityError of db.commit(), which register does not catch
            /\ Finish(p, "register", req[p].args,
                      HTTPException(HTTP_500_INTERNAL_SERVER_ERROR, "Internal Server Error"))
            /\ UNCHANGED <<users, nextId, tokens>>
    /\ UNCHANGED <<user_preferences, saved_items, now, QLOO_API_KEY>>

\* ------------------------------------------------------------- POST /login
LoginResult_Leaky(username, password) ==
    LET user == UserByName(username) IN
    IF ~UserFound(username)
    THEN HTTPException(HTTP_401_UNAUTHORIZED, "Incorrect username or password")
    ELSE IF ~verify_password(password, user.hashed_password)
    THEN HTTPException(HTTP_401_UNAUTHORIZED, "Incorrect password")
    ELSE Response(HTTP_200_OK, [access_token |-> create_access_token(user.username, now),
                                token_type |-> "bearer"])

LoginResult(username, password) ==
    LET user == UserByName(username) IN
    IF ~UserFound(username)
    THEN HTTPException(HTTP_401_UNAUTHORIZED, "Incorrect username or password")
    ELSE IF ~verify_password(password, user.hashed_password)
    THEN HTTPException(HTTP_401_UNAUTHORIZED, "Incorrect username or password")
    ELSE Response(HTTP_200_OK, [access_token |-> create_access_token(user.username, now),
                                token_type |-> "bearer"])

Login(p, username, password) ==
    /\ Ready(p)
    /\ LET r == LoginResult(username, password) IN
       /\ Finish(p, "login", [username |-> username, password |-> password], r)
       /\ tokens' = IF r.status = HTTP_200_OK THEN Keep(tokens, r.body.access_token) ELSE tokens
    /\ UNCHANGED <<db, now, QLOO_API_KEY>>

\* ------------------------------------------------------------- the two checks
Authenticated == [status |-> HTTP_200_OK, body |-> [detail |-> ""]]

\* verify_token, then the account lookup by the token's username: the
\* account, or the HTTPException the handler raises
Authenticate(token) ==
    LET username == verify_token(token, now) IN
    IF username = None
    THEN HTTPException(HTTP_401_UNAUTHORIZED, "Could not validate credentials")
    ELSE IF ~UserFound(username)
    THEN HTTPException(HTTP_401_UNAUTHORIZED, "User not found")
    ELSE Authenticated

\* the account of a token that passed both checks
CurrentUser(token) == UserByName(verify_token(token, now))

\* ------------------------------------------------------------- GET /me
\* "except Exception" around the whole body also catches the
\* HTTPException raised inside it
MeCatchAll(r) ==
    IF r.status # HTTP_200_OK
    THEN HTTPException(HTTP_500_INTERNAL_SERVER_ERROR, "Internal server error")
    ELSE r

MeResult(token) ==
    LET a == Authenticate(token)
        user == CurrentUser(token) IN
    MeCatchAll(IF a.status # HTTP_200_OK THEN a
               ELSE Response(HTTP_200_OK, [id |-> user.id, username |-> user.username,
                                           email |-> user.email]))

Me(p, token) ==
    /\ Ready(p)
    /\ Finish(p, "me", [token |-> token], MeResult(token))
    /\ UNCHANGED <<db, now, tokens, QLOO_API_KEY>>

\* ------------------------------------------------------------- POST /preferences
PreferenceKeys == {"movie_name", "book_name", "place_name", "age", "gender"}

\* the JSON bodies the clients of the model send
PreferenceBodies ==
    { [book_name |-> "Dune"],
      [book_name |-> "Emma", movie_name |-> "Alien", age |-> "35_and_younger"] }

\* db.query(UserPreference).filter(UserPreference.user_id == id)
PreferencesOf(id) == {r \in user_preferences : r.user_id = id}

\* the columns written from the request body: preferences.get(key)
PreferenceColumns(preferences) == [k \in PreferenceKeys |-> Get(preferences, k)]

PreferenceRow(id, user_id, preferences) ==
    [id |-> id, user_id |-> user_id, columns |-> PreferenceColumns(preferences)]

\* what save_preferences does with the row it looked up
SavePreferencesPlan(user_id, existing) ==
    IF existing # {}
    THEN {[kind |-> "update", id |-> r.id, user_id |-> user_id] : r \in existing}
    ELSE {[kind |-> "insert", id |-> 0, user_id |-> user_id]}

SavePreferencesRead(p, token, preferences) ==
    /\ Ready(p)
    /\ LET args == [token |-> token, preferences |-> preferences]
           a == Authenticate(token) IN
       IF a.status # HTTP_200_OK
       THEN Finish(p, "save_preferences", args, a)
       ELSE /\ PreferencesOf(CurrentUser(token).id) = {} => nextId.user_preferences <= MaxPrefId
            /\ \E plan \in SavePreferencesPlan(CurrentUser(token).id,
                                              PreferencesOf(CurrentUser(token).id)) :
                  Suspend(p, "save_preferences", args, plan)
    /\ UNCHANGED <<db, now, tokens, QLOO_API_KEY>>

SavePreferencesCommit(p) ==
    /\ req[p].op = "save_preferences" /\ req[p].pc = "commit"
    /\ LET plan == req[p].pending
           preferences == req[p].args.preferences
           failed == HTTPException(HTTP_500_INTERNAL_SERVER_ERROR, "Failed to save preferences") IN
       IF plan.kind = "update"
       THEN IF \E r \in user_preferences : r.id = plan.id
            THEN /\ user_preferences' =
                        {IF r.id = plan.id
                         THEN PreferenceRow(r.id, r.user_id, preferences)
                         ELSE r : r \in user_preferences}
                 /\ nextId' = nextId
                 /\ Finish(p, "save_preferences", req[p].args,
                           Response(HTTP_200_OK, [message |-> "Preferences saved successfully"]))
            ELSE \* the row is gone: the UPDATE matches no row, db.rollback()
                 /\ UNCHANGED <<user_preferences, nextId>>
                 /\ Finish(p, "save_preferences", req[p].args, failed)
       ELSE IF UserIdExists(plan.user_id)
            THEN /\ user_preferences' = user_preferences \cup
                        {PreferenceRow(nextId.user_preferences, plan.user_id, preferences)}
                 /\ nextId' = [nextId EXCEPT !.user_preferences = @ + 1]
                 /\ Finish(p, "save_preferences", req[p].args,
                           Response(HTTP_200_OK, [message |-> "Preferences saved successfully"]))
            ELSE \* the foreign key users.id fails: db.rollback()
                 /\ UNCHANGED <<user_preferences, nextId>>
                 /\ Finish(p, "save_preferences", req[p].args, failed)
    /\ UNCHANGED <<users, saved_items, now, tokens, QLOO_API_KEY>>

\* ------------------------------------------------------------- GET /preferences
GetPreferencesResult(token) ==
    LET a == Authenticate(token)
        rows == PreferencesOf(CurrentUser(token).id) IN
    IF a.status # HTTP_200_OK THEN a
    ELSE IF rows = {} THEN Response(HTTP_200_OK, EmptyDict)
    ELSE Response(HTTP_200_OK, (CHOOSE r \in rows : \A q \in rows : r.id <= q.id).columns)

GetPreferences(p, token) ==
    /\ Ready(p)
    /\ Finish(p, "get_preferences", [token |-> token], GetPreferencesResult(token))
    /\ UNCHANGED <<db, now, tokens, QLOO_API_KEY>>

\* ------------------------------------------------------------- POST /save
\* the request bodies (SavedItemCreate) the clients of the model send
ItemBodies ==
    { [item_id |-> "m1", item_name |-> "Dune", item_type |-> "movie",
       item_image |-> "", item_description |-> "", favorited |-> FALSE],
      [item_id |-> "m1", item_name |-> "Dune (1984)", item_type |-> "movie",
       item_image |-> "dune.png", item_description |-> "", favorited |-> TRUE],
      [item_id |-> "b1", item_name |-> "Emma", item_type |-> "book",
       item_image |-> "", item_description |-> "", favorited |-> TRUE],
      [item_id |-> "", item_name |-> "Dune", item_type |-> "movie",
       item_image |-> "", item_description |-> "", favorited |-> FALSE] }

ItemIds == {b.item_id : b \in ItemBodies} \ {""}

SavedOf_AnyAccount(user_id, item_id) ==
    {r \in saved_items : r.item_id = item_id}

\* db.query(SavedItem).filter(SavedItem.user_id == id, SavedItem.item_id == item_id)
SavedOf(user_id, item_id) ==
    {r \in saved_items : r.user_id = user_id /\ r.item_id = item_id}

SavedItemRow(id, user_id, item, t) ==
    [id |-> id, user_id |-> user_id, item_id |-> item.item_id,
     item_name |-> item.item_name, item_type |-> item.item_type,
     item_image |-> item.item_image, item_description |-> item.item_description,
     favorited |-> item.favorited, saved_at |-> t]

SavedItemResponse(r) ==
    [id |-> r.id, item_id |-> r.item_id, item_name |-> r.item_name,
     item_type |-> r.item_type, item_image |-> r.item_image,
     item_description |-> r.item_description, favorited |-> r.favorited,
     saved_at |-> r.saved_at]

\* the input validation and the two checks, in the order save_item runs them
SaveItemGuard(token, item) ==
    IF item.item_id = "" \/ item.item_name = ""
    THEN HTTPException(HTTP_400_BAD_REQUEST, "item_id and item_name are required")
    ELSE Authenticate(token)

\* what save_item does with the row it looked up: answer it unchanged,
\* update its favorited flag, or insert a new row
SaveItemPlan_AlwaysInsert(user_id, item, existing) ==
    {[kind |-> "insert", id |-> 0, user_id |-> user_id]}

SaveItemPlan(user_id, item, existing) ==
    IF existing # {}
    THEN {[kind |-> IF r.favorited # item.favorited THEN "update" ELSE "return",
           id |-> r.id, user_id |-> user_id] : r \in existing}
    ELSE {[kind |-> "insert", id |-> 0, user_id |-> user_id]}

SaveItemUpdated_Overwrite(r, item) ==
    [r EXCEPT !.favorited = item.favorited, !.item_name = item.item_name]

SaveItemUpdated(r, item) == [r EXCEPT !.favorited = item.favorited]

SaveItemRead(p, token, item) ==
    /\ Ready(p)
    /\ LET args == [token |-> token, item |-> item]
           g == SaveItemGuard(token, item) IN
       IF g.status # HTTP_200_OK
       THEN Finish(p, "save_item", args, g)
       ELSE LET user_id == CurrentUser(token).id IN
            /\ SavedOf(user_id, item.item_id) = {} => nextId.saved_items <= MaxItemId
            /\ \E plan \in SaveItemPlan(user_id, item, SavedOf(user_id, item.item_id)) :
                  IF plan.kind = "return"
                  THEN Finish(p, "save_item", args,
                              Response(HTTP_200_OK,
                                       SavedItemResponse(CHOOSE r \in saved_items : r.id = plan.id)))
                  ELSE Suspend(p, "save_item", args, plan)
    /\ UNCHANGED <<db, now, tokens, QLOO_API_KEY>>

SaveItemCommit(p) ==
    /\ req[p].op = "save_item" /\ req[p].pc = "commit"
    /\ LET plan == req[p].pending
           item == req[p].args.item
           failed == HTTPException(HTTP_500_INTERNAL_SERVER_ERROR, "Database error") IN
       IF plan.kind = "update"
       THEN IF \E r \in saved_items : r.id = plan.id
            THEN LET row == SaveItemUpdated(CHOOSE r \in saved_items : r.id = plan.id, item) IN
                 /\ saved_items' = {r \in saved_items : r.id # plan.id} \cup {row}
                 /\ nextId' = nextId
                 /\ Finish(p, "save_item", req[p].args,
                           Response(HTTP_200_OK, SavedItemResponse(row)))
            ELSE \* the row is gone: the UPDATE matches no row, db.rollback()
                 /\ UNCHANGED <<saved_items, nextId>>
                 /\ Finish(p, "save_item", req[p].args, failed)
       ELSE IF UserIdExists(plan.user_id)
            THEN LET row == SavedItemRow(nextId.saved_items, plan.user_id, item, now) IN
                 /\ saved_items' = saved_items \cup {row}
                 /\ nextId' = [nextId EXCEPT !.saved_items = @ + 1]
                 /\ Finish(p, "save_item", req[p].args,
                           Response(HTTP_200_OK, SavedItemResponse(row)))
            ELSE \* the foreign key users.id fails: db.rollback()
                 /\ UNCHANGED <<saved_items, nextId>>
                 /\ Finish(p, "save_item", req[p].args, failed)
    /\ UNCHANGED <<users, user_preferences, now, tokens, QLOO_API_KEY>>

\* ------------------------------------------------------------- GET /list
RECURSIVE ById(_)
ById(rows) ==
    IF rows = {} THEN <<>>
    ELSE LET r == CHOOSE x \in rows : \A y \in rows : x.id <= y.id IN
         <<r>> \o ById(rows \ {r})

GetSavedItemsResult(token) ==
    LET a == Authenticate(token)
        rows == ById({r \in saved_items : r.user_id = CurrentUser(token).id}) IN
    IF a.status # HTTP_200_OK THEN a
    ELSE Response(HTTP_200_OK, [i \in 1..Len(rows) |-> SavedItemResponse(rows[i])])

GetSavedItems(p, token) ==
    /\ Ready(p)
    /\ Finish(p, "get_saved_items", [token |-> token], GetSavedItemsResult(token))
    /\ UNCHANGED <<db, now, tokens, QLOO_API_KEY>>

\* ------------------------------------------------------------- DELETE /remove/{item_id}
RemoveGuard(token, item_id) ==
    LET a == Authenticate(token) IN
    IF a.status # HTTP_200_OK THEN a
    ELSE IF SavedOf(CurrentUser(token).id, item_id) = {}
    THEN HTTPException(HTTP_404_NOT_FOUND, "Saved item not found")
    ELSE Authenticated

\* db.delete(saved_item)
RemoveDeleted_Nothing(rows, id) == rows

RemoveDeleted(rows, id) == {r \in rows : r.id # id}

RemoveSavedItemRead(p, token, item_id) ==
    /\ Ready(p)
    /\ LET args == [token |-> token, item_id |-> item_id]
           g == RemoveGuard(token, item_id) IN
       IF g.status # HTTP_200_OK
       THEN Finish(p, "remove_saved_item", args, g)
       ELSE \E r \in SavedOf(CurrentUser(token).id, item_id) :
               Suspend(p, "remove_saved_item", args, [id |-> r.id])
    /\ UNCHANGED <<db, now, tokens, QLOO_API_KEY>>

RemoveSavedItemCommit(p) ==
    /\ req[p].op = "remove_saved_item" /\ req[p].pc = "commit"
    /\ IF \E r \in saved_items : r.id = req[p].pending.id
       THEN /\ saved_items' = RemoveDeleted(saved_items, req[p].pending.id)
            /\ Finish(p, "remove_saved_item", req[p].args,
                      Response(HTTP_200_OK, [message |-> "Item removed from saved list"]))
       ELSE \* the row is gone: the DELETE matches no row, and nothing catches it
            /\ saved_items' = saved_items
            /\ Finish(p, "remove_saved_item", req[p].args,
                      HTTPException(HTTP_500_INTERNAL_SERVER_ERROR, "Internal Server Error"))
    /\ UNCHANGED <<users, user_preferences, nextId, now, tokens, QLOO_API_KEY>>

\* ------------------------------------------------------------- GET /check/{item_id}
CheckIfSavedResult(token, item_id) ==
    LET a == Authenticate(token) IN
    IF a.status # HTTP_200_OK THEN a
    ELSE Response(HTTP_200_OK,
                  [is_saved |-> SavedOf(CurrentUser(token).id, item_id) # {}])

CheckIfSaved(p, token, item_id) ==
    /\ Ready(p)
    /\ Finish(p, "check_if_saved", [token |-> token, item_id |-> item_id],
              CheckIfSavedResult(token, item_id))
    /\ UNCHANGED <<db, now, tokens, QLOO_API_KEY>>

\* ------------------------------------------------------------- upstream JSON
\* a JSON value as response.json() gives it: null, a string, an object
\* (dict) or an array (list)
JNull == [kind |-> "null"]
JStr(str) == [kind |-> "str", s |-> str]
JNum(n) == [kind |-> "number", n |-> n]
JObj(fields) == [kind |-> "object", fields |-> fields]
JArr(items) == [kind |-> "array", items |-> items]

\* the Python value of a JSON value where the handlers use it as a string:
\* None, the string, or a value that is no string
NotAString == "<json>"

ToPython(v) ==
    CASE v.kind = "null" -> None
      [] v.kind = "str" -> v.s
      [] OTHER -> NotAString

\* the outcome of a Python expression: it raised, or its value
Raised == [exc |-> TRUE, value |-> JNull]
Ret(v) == [exc |-> FALSE, value |-> v]

\* key in data
PyIn(key, data) ==
    CASE data.kind = "object" -> Ret(key \in DOMAIN data.fields)
      [] data.kind = "array" -> Ret(\E i \in DOMAIN data.items : data.items[i] = JStr(key))
      [] data.kind = "str" -> Ret(data.s = key)
      [] OTHER -> Raised

\* data[key], key a string
PyItem(data, key) ==
    IF data.kind = "object" /\ key \in DOMAIN data.fields
    THEN Ret(data.fields[key])
    ELSE Raised

\* len(data)
PyLen(data) ==
    CASE data.kind = "object" -> Ret(Cardinality(DOMAIN data.fields))
      [] data.kind = "array" -> Ret(Len(data.items))
      [] data.kind = "str" -> Ret(IF data.s = "" THEN 0 ELSE 1)
      [] OTHER -> Raised

\* data[0]
PyFirst(data) ==
    CASE data.kind = "array" /\ Len(data.items) > 0 -> Ret(data.items[1])
      [] data.kind = "str" /\ data.s # "" -> Ret(data)
      [] OTHER -> Raised

\* data.get(key)
PyGet(data, key) ==
    IF data.kind # "object" THEN Raised
    ELSE IF key \in DOMAIN data.fields THEN Ret(data.fields[key])
    ELSE Ret(JNull)

\* the answers of the upstream to one GET: the call raises, the status is
\* not OK, the body is no JSON, or the body
UpstreamRaises == [kind |-> "raises"]
UpstreamNotOk == [kind |-> "response", ok |-> FALSE, json |-> Raised]
UpstreamNoJson == [kind |-> "response", ok |-> TRUE, json |-> Raised]
UpstreamJson(data) == [kind |-> "response", ok |-> TRUE, json |-> Ret(data)]

\* ------------------------------------------------------------- fetch_entity_id
\* the elif branch: the bare array
FetchFromArray_Last(data) ==
    IF data.kind = "array" /\ Len(data.items) > 0
    THEN LET last == data.items[Len(data.items)]
             has == PyIn("entity_id", last) IN
         IF has.exc THEN Raised
         ELSE IF has.value THEN PyItem(last, "entity_id")
         ELSE Ret(JNull)
    ELSE Ret(JNull)

FetchFromArray(data) ==
    IF data.kind = "array" /\ Len(data.items) > 0
    THEN LET has == PyIn("entity_id", data.items[1]) IN
         IF has.exc THEN Raised
         ELSE IF has.value THEN PyItem(data.items[1], "entity_id")
         ELSE Ret(JNull)
    ELSE Ret(JNull)

\* the if branch: the object with the key results
FetchFromResults(data) ==
    LET results == PyItem(data, "results")
        n == PyLen(results.value)
        first == PyFirst(results.value) IN
    IF results.exc \/ n.exc THEN Raised
    ELSE IF n.value > 0
    THEN IF first.exc THEN Raised ELSE PyGet(first.value, "entity_id")
    ELSE FetchFromArray(data)

FetchFromData(data) ==
    LET has == PyIn("results", data) IN
    IF has.exc THEN Raised
    ELSE IF has.value THEN FetchFromResults(data)
    ELSE FetchFromArray(data)

fetch_entity_id(api_key, upstream) ==
    IF ~Truthy(api_key) THEN None
    ELSE IF upstream.kind = "raises" THEN None
    ELSE IF ~upstream.ok THEN None
    ELSE IF upstream.json.exc THEN None
    ELSE LET r == FetchFromData(upstream.json.value) IN
         IF r.exc THEN None ELSE ToPython(r.value)

\* the items of the upstream search answers of the model: records with
\* and without entity_id, a null entity_id, and strings
SearchItems ==
    { JObj([entity_id |-> JStr("E1"), name |-> JStr("Dune")]),
      JObj([entity_id |-> JStr("E2")]),
      JObj([name |-> JStr("Dune")]),
      JObj([entity_id |-> JNull]),
      JStr("entity_id"),
      JStr("results") }

RECURSIVE SeqsUpTo(_, _)
SeqsUpTo(S, n) ==
    IF n = 0 THEN {<<>>}
    ELSE LET shorter == SeqsUpTo(S, n - 1) IN
         shorter \cup {Append(q, x) : q \in shorter, x \in S}

SearchLists == SeqsUpTo(SearchItems, MaxRecords)

\* the two shapes of one list of records
AsArray(items) == JArr(items)
AsResults(items) == JObj([results |-> JArr(items)])

SearchAnswers ==
    {UpstreamRaises, UpstreamNotOk, UpstreamNoJson}
    \cup {UpstreamJson(AsArray(l)) : l \in SearchLists}
    \cup {UpstreamJson(AsResults(l)) : l \in SearchLists}
    \cup {UpstreamJson(JNull), UpstreamJson(JObj([results |-> JNull])),
          UpstreamJson(JObj([error |-> JStr("rate limited")]))}

\* one call of the resolver by a worker
FetchEntityId(p, upstream) ==
    /\ Ready(p)
    /\ Finish(p, "fetch_entity_id", [upstream |-> upstream],
              Response(HTTP_200_OK, [entity_id |-> fetch_entity_id(QLOO_API_KEY, upstream)]))
    /\ UNCHANGED <<db, now, tokens, QLOO_API_KEY>>

\* ------------------------------------------------------------- get_insights
\* an exception that leaves the handler: the framework answers 500
Unhandled == HTTPException(HTTP_500_INTERNAL_SERVER_ERROR, "Internal Server Error")

EmptyList == JArr(<<>>)

\* the entities of an insights answer, or [] on any failure
InsightsEntities(upstream) ==
    IF upstream.kind = "raises" THEN EmptyList
    ELSE IF ~upstream.ok \/ upstream.json.exc THEN EmptyList
    ELSE LET data == upstream.json.value
             has == PyIn("results", data)
             results == PyItem(data, "results")
             hasEntities == PyIn("entities", results.value) IN
         IF has.exc THEN EmptyList
         ELSE IF ~has.value THEN EmptyList
         ELSE IF results.exc \/ hasEntities.exc THEN EmptyList
         ELSE IF ~hasEntities.value THEN EmptyList
         ELSE IF PyItem(results.value, "entities").exc THEN EmptyList
         ELSE PyItem(results.value, "entities").value

\* ",".join(entity_ids), before the try: it raises TypeError on an item
\* that is no string
JoinRaises(entity_ids) == \E i \in DOMAIN entity_ids : entity_ids[i] = NotAString

get_insights(entity_ids, age, gender, domain, upstream) ==
    IF JoinRaises(entity_ids) THEN Raised ELSE Ret(InsightsEntities(upstream))

\* get_popular_books sends no signal: the whole body is in the try
get_popular_books(entity_ids, age, gender, upstream) == Ret(InsightsEntities(upstream))

\* the lists of entity ids the aggregator is called with: what
\* fetch_entity_id returned for the names, then the favorites
SignalLists == {<<"E1">>, <<"E1", "m1">>, <<NotAString>>, <<"E1", NotAString>>}

\* the answers of the insights endpoint to a query
InsightsAnswers ==
    {UpstreamRaises, UpstreamNotOk, UpstreamNoJson, UpstreamJson(JNull),
     UpstreamJson(JObj([results |-> JNull])), UpstreamJson(JObj([results |-> JArr(<<>>)])),
     UpstreamJson(JArr(<<JStr("results")>>)),
     UpstreamJson(JObj([results |-> JObj([entities |-> JArr(<<>>)])])),
     UpstreamJson(JObj([results |-> JObj([entities |-> JArr(<<JObj([name |-> JStr("Emma")])>>)])]))}

\* one call of get_insights by a worker: the value it returns, or the
\* exception that leaves it
GetInsights(p, entity_ids, upstream) ==
    /\ Ready(p)
    /\ LET r == get_insights(entity_ids, None, None, "book", upstream) IN
       Finish(p, "get_insights", [entity_ids |-> entity_ids, upstream |-> upstream],
              IF r.exc THEN Unhandled ELSE Response(HTTP_200_OK, [value |-> r.value]))
    /\ UNCHANGED <<db, now, tokens, QLOO_API_KEY>>

\* one call of get_popular_books by a worker
GetPopularBooks(p, entity_ids, upstream) ==
    /\ Ready(p)
    /\ LET r == get_popular_books(entity_ids, None, None, upstream) IN
       Finish(p, "get_popular_books", [entity_ids |-> entity_ids, upstream |-> upstream],
              IF r.exc THEN Unhandled ELSE Response(HTTP_200_OK, [value |-> r.value]))
    /\ UNCHANGED <<db, now, tokens, QLOO_API_KEY>>

\* ------------------------------------------------------------- POST /recommendations
\* the request carries no Authorization header
NoCredentials == [sub |-> None, exp |-> 0, sig |-> "absent"]

\* app.auth.get_current_user: the account of the credentials, or it raises
get_current_user(credentials) ==
    IF Authenticate(credentials).status # HTTP_200_OK
    THEN {}
    ELSE {CurrentUser(credentials)}

\* get_current_user_optional takes nothing from the request and calls
\* get_current_user() with no argument: the bearer token of the request is
\* never handed over, the call raises and the bare except answers None
get_current_user_optional(token) == get_current_user(NoCredentials)

\* the request bodies (PreferenceInput) the clients of the model send
RecommendationBodies ==
    { EmptyDict,
      [book_name |-> "Emma"],
      [movie_name |-> "Alien", age |-> "35_and_younger", gender |-> "male"],
      [book_name |-> "", place_name |-> "Paris"] }

\* user_preferences of the handler: {} or the columns of the account's row
StoredPreferences(current_user) ==
    IF current_user = {} THEN EmptyDict
    ELSE LET rows == UNION {PreferencesOf(u.id) : u \in current_user} IN
         IF rows = {} THEN EmptyDict
         ELSE (CHOOSE r \in rows : \A q \in rows : r.id <= q.id).columns

\* item ids of the account's saved items with favorited = True
FavoriteEntities(current_user) ==
    LET rows == {r \in saved_items : r.favorited /\ Truthy(r.item_id)
                                      /\ \E u \in current_user : r.user_id = u.id}
        sorted == ById(rows) IN
    [i \in 1..Len(sorted) |-> sorted[i].item_id]

\* a or b
PyOr(a, b) == IF Truthy(a) THEN a ELSE b

\* book_name, movie_name, place_name, age, gender of the handler
EffectivePreferences(preference, stored) ==
    [k \in PreferenceKeys |-> PyOr(Get(preference, k), Get(stored, k))]

EntityTypes == <<"book", "movie", "place">>
NameOf(type) == CASE type = "book" -> "book_name" [] type = "movie" -> "movie_name"
                  [] OTHER -> "place_name"

\* the ids the three names resolve to, in the order book, movie, place
RECURSIVE ResolvedIds(_, _, _, _)
ResolvedIds(effective, api_key, search, n) ==
    IF n > Len(EntityTypes) THEN <<>>
    ELSE LET type == EntityTypes[n]
             id == fetch_entity_id(api_key, search[type]) IN
         (IF Truthy(effective[NameOf(type)]) /\ Truthy(id) THEN <<id>> ELSE <<>>)
         \o ResolvedIds(effective, api_key, search, n + 1)

NoSignals_KeyBlind(api_key) ==
    [book_recs |-> EmptyList, popular_books |-> EmptyList, movie_recs |-> EmptyList,
     tv_show_recs |-> EmptyList,
     message |-> "No preferences found. Please set your preferences first."]

NoSignals(api_key) ==
    [book_recs |-> EmptyList, popular_books |-> EmptyList, movie_recs |-> EmptyList,
     tv_show_recs |-> EmptyList,
     message |-> IF ~Truthy(api_key)
                 THEN "API key not configured. Please set QLOO_API_KEY in your .env file."
                 ELSE "No preferences found. Please set your preferences first."]

\* the insights queries the handler issues, in its order
InsightsCalls(entity_ids) ==
    IF entity_ids = <<>> THEN <<>>
    ELSE IF JoinRaises(entity_ids) THEN <<"book">>
    ELSE <<"book", "popular", "movie", "tv_show">>

RecommendationsResult_AllOrNothing(effective, entity_ids, api_key, insights) ==
    IF entity_ids = <<>>
    THEN Response(HTTP_200_OK, NoSignals(api_key))
    ELSE IF \E c \in DOMAIN insights : InsightsEntities(insights[c]) = EmptyList
    THEN Response(HTTP_200_OK,
                  [book_recs |-> EmptyList, popular_books |-> EmptyList,
                   movie_recs |-> EmptyList, tv_show_recs |-> EmptyList])
    ELSE Response(HTTP_200_OK,
                  [book_recs |-> InsightsEntities(insights.book),
                   popular_books |-> InsightsEntities(insights.popular),
                   movie_recs |-> InsightsEntities(insights.movie),
                   tv_show_recs |-> InsightsEntities(insights.tv_show)])

RecommendationsResult(effective, entity_ids, api_key, insights) ==
    IF entity_ids = <<>>
    THEN Response(HTTP_200_OK, NoSignals(api_key))
    ELSE LET book_recs == get_insights(entity_ids, effective.age, effective.gender, "book", insights.book)
             popular_books == get_popular_books(entity_ids, effective.age, effective.gender, insights.popular)
             movie_recs == get_insights(entity_ids, effective.age, effective.gender, "movie", insights.movie)
             tv_show_recs == get_insights(entity_ids, effective.age, effective.gender, "tv_show", insights.tv_show) IN
         IF book_recs.exc \/ popular_books.exc \/ movie_recs.exc \/ tv_show_recs.exc
         THEN Unhandled
         ELSE Response(HTTP_200_OK,
                       [book_recs |-> book_recs.value, popular_books |-> popular_books.value,
                        movie_recs |-> movie_recs.value, tv_show_recs |-> tv_show_recs.value])

\* the answers of the upstream to the calls of one request
Found(id) == UpstreamJson(AsResults(<<JObj([entity_id |-> JStr(id)])>>))
Entities(name) ==
    UpstreamJson(JObj([results |-> JObj([entities |-> JArr(<<JObj([name |-> JStr(name)])>>)])]))

SearchScenarios ==
    { [book |-> Found("E-book"), movie |-> Found("E-movie"), place |-> Found("E-place")],
      [book |-> UpstreamRaises, movie |-> Found("E-movie"), place |-> UpstreamNotOk],
      [book |-> UpstreamNotOk, movie |-> UpstreamNoJson, place |-> UpstreamRaises] }

InsightsOk ==
    [book |-> Entities("rec-book"), popular |-> Entities("popular"),
     movie |-> Entities("rec-movie"), tv_show |-> Entities("rec-tv")]

InsightsScenarios ==
    {InsightsOk}
    \cup {[InsightsOk EXCEPT ![c] = UpstreamRaises] : c \in DOMAIN InsightsOk}
    \cup {[c \in DOMAIN InsightsOk |-> UpstreamNotOk]}

GetRecommendations(p, token, preference, search, insights) ==
    /\ Ready(p)
    /\ LET current_user == get_current_user_optional(token)
           effective == EffectivePreferences(preference, StoredPreferences(current_user))
           entity_ids == ResolvedIds(effective, QLOO_API_KEY, search, 1)
                             \o FavoriteEntities(current_user) IN
       /\ req' = [req EXCEPT ![p] =
                    [op |-> "get_recommendations", pc |-> "done",
                     args |-> [token |-> token, preference |-> preference,
                               search |-> search, insights |-> insights],
                     pending |-> [effective |-> effective, entity_ids |-> entity_ids,
                                  calls |-> InsightsCalls(entity_ids)]]]
       /\ resp' = [resp EXCEPT ![p] =
                    RecommendationsResult(effective, entity_ids, QLOO_API_KEY, insights)]
    /\ UNCHANGED <<db, now, tokens, QLOO_API_KEY>>

\* ------------------------------------------------------------- POST /search
\* bool(v) of a JSON value
JTruthy(v) ==
    CASE v.kind = "null" -> FALSE
      [] v.kind = "str" -> v.s # ""
      [] v.kind = "number" -> v.n # 0
      [] v.kind = "array" -> v.items # <<>>
      [] v.kind = "object" -> DOMAIN v.fields # {}
      [] OTHER -> TRUE

\* a or b, of two outcomes: b is evaluated only when a is falsy
Or2(a, b) == IF a.exc THEN Raised ELSE IF JTruthy(a.value) THEN a ELSE b

\* details.get(outer, {}).get(key)
NestedGet(details, outer, key) ==
    IF details.kind # "object" THEN Raised
    ELSE IF outer \in DOMAIN details.fields THEN PyGet(details.fields[outer], key)
    ELSE Ret(JNull)

\* image_url of the handler; nested is
\* details.get('properties', {}).get('image', {}).get('url')
ImageUrl(details) ==
    LET properties == PyGet(details, "properties")
        nested == IF properties.value.kind # "object" THEN Raised
                  ELSE IF "image" \in DOMAIN properties.value.fields
                  THEN PyGet(properties.value.fields.image, "url")
                  ELSE Ret(JNull) IN
    Or2(PyGet(details, "image_url"),
        Or2(PyGet(details, "image"),
            Or2(PyGet(details, "cover_image"),
                IF properties.exc THEN Raised
                ELSE IF JTruthy(properties.value) THEN nested
                ELSE Ret(JNull))))

\* details.get(key) or details.get('properties', {}).get(key)
TopOrNested(details, key) == Or2(PyGet(details, key), NestedGet(details, "properties", key))

PropertyKeys ==
    {"short_description", "description", "publication_year", "publication_date", "genre",
     "page_count", "language", "publisher", "isbn13", "format"}

\* the entity dict built from details, or the exception of one of its parts
Normalize(details, query, entity_type) ==
    LET image_url == ImageUrl(details)
        \* details.get('name', search_input.query)
        name == IF details.kind # "object" THEN Raised
                ELSE IF "name" \in DOMAIN details.fields THEN Ret(details.fields.name)
                ELSE Ret(JStr(query))
        \* details.get('goodreads_id') or details.get('external', {}).get('goodreads')
        goodreads == Or2(PyGet(details, "goodreads_id"),
                         NestedGet(details, "external", "goodreads")) IN
    IF \/ image_url.exc \/ name.exc \/ goodreads.exc
       \/ \E k \in PropertyKeys : TopOrNested(details, k).exc
    THEN Raised
    ELSE Ret(JObj(
        [entity_id |-> PyGet(details, "entity_id").value,
         name |-> name.value,
         type |-> JStr(entity_type),
         image |-> image_url.value,
         image_url |-> image_url.value,
         rating |-> PyGet(details, "rating").value,
         rating_count |-> PyGet(details, "rating_count").value,
         author |-> PyGet(details, "author").value,
         properties |-> JObj(
             [k \in PropertyKeys \cup {"image"} |->
                 IF k = "image"
                 THEN IF JTruthy(image_url.value) THEN JObj([url |-> image_url.value]) ELSE JNull
                 ELSE TopOrNested(details, k).value]),
         external |-> IF JTruthy(goodreads.value)
                      THEN JObj([goodreads |-> goodreads.value]) ELSE JNull]))

\* the first lookup by id, outside the inner try: it raises, it returns the
\* entities, or (no value) the handler goes on to the direct search
FirstLookup(upstream) ==
    LET go_on == Ret([kind |-> "go_on"]) IN
    IF upstream.kind = "raises" THEN Raised
    ELSE IF ~upstream.ok THEN go_on
    ELSE IF upstream.json.exc THEN Raised
    ELSE LET data == upstream.json.value
             has == PyIn("results", data)
             results == PyItem(data, "results")
             hasEntities == PyIn("entities", results.value)
             entities == PyItem(results.value, "entities") IN
         IF has.exc THEN Raised
         ELSE IF ~has.value THEN go_on
         ELSE IF results.exc \/ hasEntities.exc THEN Raised
         ELSE IF ~hasEntities.value THEN go_on
         ELSE IF entities.exc THEN Raised
         ELSE Ret(entities.value)

\* full_details of one result: the first entity of the lookup by its id,
\* None when the lookup fails in any way
FullDetails(upstream) ==
    LET entities == InsightsEntities(upstream)
        n == PyLen(entities)
        first == PyFirst(entities) IN
    IF n.exc THEN JNull
    ELSE IF n.value = 0 THEN JNull
    ELSE IF first.exc THEN JNull
    ELSE first.value

\* the slice data['results'][:5] takes at most this many results
SearchLimit == 5

\* the loop over the results: the entities, or the exception of one of them
RECURSIVE NormalizeAll(_, _, _, _, _)
NormalizeAll(results, lookup, query, entity_type, i) ==
    IF i > Len(results) THEN Ret(<<>>)
    ELSE LET result == results[i]
             entity_id == PyGet(result, "entity_id")
             full_details == IF JTruthy(entity_id.value) THEN FullDetails(lookup) ELSE JNull
             details == IF JTruthy(full_details) THEN full_details ELSE result
             entity == Normalize(details, query, entity_type)
             rest == NormalizeAll(results, lookup, query, entity_type, i + 1) IN
         IF entity_id.exc \/ entity.exc \/ rest.exc THEN Raised
         ELSE Ret(<<entity.value>> \o rest.value)

\* the direct search in the inner try: every exception gives no results
DirectSearch(upstream, lookup, query, entity_type) ==
    IF upstream.kind = "raises" THEN EmptyList
    ELSE IF ~upstream.ok \/ upstream.json.exc THEN EmptyList
    ELSE LET data == upstream.json.value
             has == PyIn("results", data)
             results == PyItem(data, "results")
             n == PyLen(results.value) IN
         IF has.exc THEN EmptyList
         ELSE IF ~has.value THEN EmptyList
         ELSE IF results.exc \/ n.exc THEN EmptyList
         ELSE IF n.value = 0 THEN EmptyList
         ELSE IF results.value.kind # "array" THEN EmptyList
         ELSE LET items == results.value.items
                  taken == SubSeq(items, 1, IF Len(items) < SearchLimit
                                            THEN Len(items) ELSE SearchLimit)
                  entities == NormalizeAll(taken, lookup, query, entity_type, 1) IN
              IF entities.exc THEN EmptyList ELSE JArr(entities.value)

search_entities(api_key, query, entity_type, search, first, direct, lookup) ==
    LET entity_id == fetch_entity_id(api_key, search)
        found == IF Truthy(entity_id) THEN FirstLookup(first) ELSE Ret([kind |-> "go_on"]) IN
    IF found.exc THEN HTTPException(HTTP_500_INTERNAL_SERVER_ERROR, "Search failed")
    ELSE IF found.value.kind # "go_on" THEN Response(HTTP_200_OK, [results |-> found.value])
    ELSE Response(HTTP_200_OK, [results |-> DirectSearch(direct, lookup, query, entity_type)])

\* the records of the upstream, by shape: the lightweight search result, a
\* record with no field, one with no id, records with the attributes at the
\* top level or nested, and records with null in the place of a nested object
SearchShapes ==
    {"light", "no_field", "no_id", "top_level", "nested", "null_properties", "null_image",
     "null_external"}

SearchRecord(shape) ==
    CASE shape = "light" -> JObj([entity_id |-> JStr("E1"), name |-> JStr("Dune")])
      [] shape = "no_field" -> JObj(EmptyDict)
      [] shape = "no_id" -> JObj([name |-> JStr("Emma"), image |-> JStr("emma.png")])
      [] shape = "top_level" ->
            JObj([entity_id |-> JStr("E1"), name |-> JStr("Dune"), image_url |-> JStr("top.png"),
                  description |-> JStr("top"), page_count |-> JNum(412),
                  goodreads_id |-> JStr("g-top")])
      [] shape = "nested" ->
            JObj([entity_id |-> JStr("E1"), name |-> JStr("Dune"), description |-> JNull,
                  properties |-> JObj([image |-> JObj([url |-> JStr("nested.png")]),
                                       description |-> JStr("nested"), genre |-> JStr("sf")]),
                  external |-> JObj([goodreads |-> JStr("g-nested")])])
      [] shape = "null_properties" ->
            JObj([entity_id |-> JStr("E1"), name |-> JStr("Dune"), properties |-> JNull])
      [] shape = "null_image" ->
            JObj([entity_id |-> JStr("E1"), name |-> JStr("Dune"),
                  properties |-> JObj([image |-> JNull, genre |-> JStr("sf")])])
      [] OTHER -> JObj([entity_id |-> JStr("E1"), name |-> JStr("Dune"), external |-> JNull])

MaxResults == 2

EntitiesOf(items) == UpstreamJson(JObj([results |-> JObj([entities |-> JArr(items)])]))

\* the answers of the insights endpoint to the lookup of a result
LookupAnswers ==
    {UpstreamRaises, UpstreamNotOk, UpstreamNoJson, EntitiesOf(<<>>),
     EntitiesOf(<<SearchRecord("nested")>>), EntitiesOf(<<SearchRecord("null_properties")>>)}

\* the answers of the search endpoint to the direct search: failures, every
\* list of up to MaxResults records, a list longer than the limit of the
\* handler, and a list with an item that is no record
DirectAnswers ==
    {UpstreamRaises, UpstreamNotOk, UpstreamNoJson, UpstreamJson(JNull),
     UpstreamJson(JObj([results |-> JNull]))}
    \cup {UpstreamJson(AsResults(l)) :
             l \in SeqsUpTo({SearchRecord(shape) : shape \in SearchShapes}, MaxResults)}
    \cup {UpstreamJson(AsResults(
             [i \in 1..(SearchLimit + 1) |->
                 SearchRecord(IF i > SearchLimit THEN "no_id" ELSE "light")])),
          UpstreamJson(AsResults(<<SearchRecord("light"), JStr("Dune")>>))}

SearchEntities(p, search_input, search, first, direct, lookup) ==
    /\ Ready(p)
    /\ Finish(p, "search_entities",
              [search_input |-> search_input, search |-> search, first |-> first,
               direct |-> direct, lookup |-> lookup],
              search_entities(QLOO_API_KEY, search_input.query, search_input.entity_type,
                              search, first, direct, lookup))
    /\ UNCHANGED <<db, now, tokens, QLOO_API_KEY>>

\* ------------------------------------------------------------- POST /convert
\* a text that json.loads rejects
NotJson == [kind |-> "garbage"]

\* a field that the object does not have
Absent == [kind |-> "absent"]
ObjectOf(f) == JObj([k \in {k \in DOMAIN f : f[k] # Absent} |-> f[k]])

\* confidences are counted in hundredths: 30 is 0.3
ConfidenceThreshold == 30

\* what the generative service does for one request: no model was built at
\* import, generate_content raises with a message of one of the kinds the
\* handler tells apart, or it delivers a text: a payload as it is, in
\* ```json ... ```, or in ``` ... ```
GenerativeAnswers ==
    LET objects ==
            {ObjectOf([entity_name |-> n, entity_type |-> t, confidence |-> c,
                       explanation |-> JStr("because")]) :
                n \in {Absent, JNull, JStr(""), JStr("Dune")},
                t \in {Absent, JStr("book")},
                c \in {Absent, JNull, JStr("high"), JNum(0), JNum(ConfidenceThreshold - 1),
                       JNum(ConfidenceThreshold), JNum(90)}}
        payloads == objects \cup {NotJson, JNull, JArr(<<>>), JStr("Dune"), JNum(90)} IN
    {[kind |-> "no_model"]}
    \cup {[kind |-> "raises", message |-> m] :
             m \in {"429 quota exceeded", "404 model not found", "timeout"}}
    \cup {[kind |-> "text", fence |-> f, payload |-> x] :
             f \in {"none", "json", "plain"}, x \in payloads}

\* json.loads of the text after the removal of the ```json fence: it raises
\* JSONDecodeError, or gives the value
JsonLoads(fence, payload) ==
    IF fence = "plain" \/ payload = NotJson THEN Raised ELSE Ret(payload)

GeminiResponse(success, entity_name, entity_type, confidence, explanation) ==
    Response(HTTP_200_OK,
             [success |-> success, entity_name |-> entity_name, entity_type |-> entity_type,
              confidence |-> confidence, explanation |-> explanation])

Failure(explanation) == GeminiResponse(FALSE, JNull, JNull, JNull, JStr(explanation))

HTTP_429_TOO_MANY_REQUESTS == 429
HTTP_503_SERVICE_UNAVAILABLE == 503

\* the outer except: the status by the message of the exception
ConvertError(message) ==
    IF message \in {"429 quota exceeded"}
    THEN HTTPException(HTTP_429_TOO_MANY_REQUESTS,
                       "Gemini API rate limit exceeded. Please try again later or use exact search mode.")
    ELSE IF message \in {"404 model not found"}
    THEN HTTPException(HTTP_503_SERVICE_UNAVAILABLE,
                       "Gemini model not available. Please check API configuration.")
    ELSE HTTPException(HTTP_500_INTERNAL_SERVER_ERROR, "Failed to process natural language query")

\* the validation of the parsed result
ConvertResult(result) ==
    LET entity_name == PyGet(result, "entity_name")
        entity_type == PyGet(result, "entity_type")
        confidence == IF "confidence" \in DOMAIN result.fields
                      THEN result.fields.confidence ELSE JNum(0)
        \* confidence < 0.3: it raises TypeError unless the confidence is a number
        below == IF confidence.kind = "number"
                 THEN Ret(confidence.n < ConfidenceThreshold) ELSE Raised IN
    IF entity_name.exc \/ entity_type.exc
    THEN ConvertError("'list' object has no attribute 'get'")
    ELSE IF ~JTruthy(entity_name.value) \/ ~JTruthy(entity_type.value)
    THEN Failure("Could not extract a valid entity name from the response")
    ELSE IF below.exc
    THEN ConvertError("'<' not supported between instances of 'NoneType' and 'float'")
    ELSE IF below.value
    THEN Failure("Low confidence in the suggested entity")
    ELSE GeminiResponse(TRUE, entity_name.value, entity_type.value, confidence,
                        IF "explanation" \in DOMAIN result.fields
                        THEN result.fields.explanation ELSE JStr(""))

convert_natural_language(service) ==
    IF service.kind = "no_model"
    THEN HTTPException(HTTP_503_SERVICE_UNAVAILABLE,
                       "Gemini model not available - check API key and model configuration")
    ELSE IF service.kind = "raises" THEN ConvertError(service.message)
    ELSE LET result == JsonLoads(service.fence, service.payload) IN
         IF result.exc THEN Failure("Failed to parse Gemini response")
         ELSE ConvertResult(result.value)

ConvertNaturalLanguage(p, query, service) ==
    /\ Ready(p)
    /\ Finish(p, "convert_natural_language", [query |-> query, service |-> service],
              convert_natural_language(service))
    /\ UNCHANGED <<db, now, tokens, QLOO_API_KEY>>

\* ------------------------------------------------------------- next
\* register, login and GET /me, one worker, with the clock and the removal
\* of accounts
OneWorker == {1}

NextAuth ==
    \/ \E p \in OneWorker, u \in Usernames, e \in Emails, pw \in RegisterPasswords : RegisterCheck(p, u, e, pw)
    \/ \E p \in OneWorker : RegisterCommit(p)
    \/ \E p \in OneWorker, u \in Usernames, pw \in Passwords : Login(p, u, pw)
    \/ \E p \in OneWorker, t \in Credentials : Me(p, t)
    \/ DeleteAccount
    \/ Tick

Spec == Init /\ [][NextAuth]_vars

\* the writers of the auth router on every worker, sharing the store
NextRace ==
    \/ \E p \in Workers, u \in Usernames, e \in Emails, pw \in RegisterPasswords : RegisterCheck(p, u, e, pw)
    \/ \E p \in Workers : RegisterCommit(p)
    \/ \E p \in Workers, t \in Credentials, b \in PreferenceBodies : SavePreferencesRead(p, t, b)
    \/ \E p \in Workers : SavePreferencesCommit(p)
    \/ \E p \in Workers, t \in Credentials : GetPreferences(p, t)

SpecRace == Init /\ [][NextRace]_vars

\* the saved items router, one worker: requests run one after the other
NextSaved ==
    \/ \E p \in OneWorker, a \in SavedAccounts : RegisterCheck(p, a.username, a.email, a.password)
    \/ \E p \in OneWorker : RegisterCommit(p)
    \/ \E p \in OneWorker, t \in Credentials, b \in ItemBodies : SaveItemRead(p, t, b)
    \/ \E p \in OneWorker : SaveItemCommit(p)
    \/ \E p \in OneWorker, t \in Credentials : GetSavedItems(p, t)
    \/ \E p \in OneWorker, t \in Credentials, i \in ItemIds : RemoveSavedItemRead(p, t, i)
    \/ \E p \in OneWorker : RemoveSavedItemCommit(p)
    \/ \E p \in OneWorker, t \in Credentials, i \in ItemIds : CheckIfSaved(p, t, i)

SpecSaved == Init /\ [][NextSaved]_vars

\* the account and the items of the scenarios with one account
RecAccounts == {a \in SavedAccounts : a.username = "alice"}
RecItems == {b \in ItemBodies : b.item_id = "m1"}

\* every protected operation of the two routers, one worker, with the
\* clock and the removal of accounts
NextProtected ==
    \/ \E p \in OneWorker, a \in RecAccounts : RegisterCheck(p, a.username, a.email, a.password)
    \/ \E p \in OneWorker : RegisterCommit(p)
    \/ \E p \in OneWorker, t \in Credentials : Me(p, t)
    \/ \E p \in OneWorker, t \in Credentials, b \in PreferenceBodies : SavePreferencesRead(p, t, b)
    \/ \E p \in OneWorker : SavePreferencesCommit(p)
    \/ \E p \in OneWorker, t \in Credentials : GetPreferences(p, t)
    \/ \E p \in OneWorker, t \in Credentials, b \in ItemBodies : SaveItemRead(p, t, b)
    \/ \E p \in OneWorker : SaveItemCommit(p)
    \/ \E p \in OneWorker, t \in Credentials : GetSavedItems(p, t)
    \/ \E p \in OneWorker, t \in Credentials, i \in ItemIds : RemoveSavedItemRead(p, t, i)
    \/ \E p \in OneWorker : RemoveSavedItemCommit(p)
    \/ \E p \in OneWorker, t \in Credentials, i \in ItemIds : CheckIfSaved(p, t, i)
    \/ DeleteAccount
    \/ Tick

SpecProtected == Init /\ [][NextProtected]_vars

\* the resolver and the aggregator alone, over the answers of the upstream
NextResolve ==
    \/ \E p \in OneWorker, upstream \in SearchAnswers : FetchEntityId(p, upstream)
    \/ \E p \in OneWorker, entity_ids \in SignalLists, upstream \in InsightsAnswers :
          GetInsights(p, entity_ids, upstream)
    \/ \E p \in OneWorker, entity_ids \in SignalLists, upstream \in InsightsAnswers :
          GetPopularBooks(p, entity_ids, upstream)

SpecResolve == Init /\ [][NextResolve]_vars

\* the recommendation router with the accounts, preferences and
\* favorites it reads, one worker

NextRec ==
    \/ \E p \in OneWorker, a \in RecAccounts : RegisterCheck(p, a.username, a.email, a.password)
    \/ \E p \in OneWorker : RegisterCommit(p)
    \/ \E p \in OneWorker, t \in Credentials, b \in PreferenceBodies : SavePreferencesRead(p, t, b)
    \/ \E p \in OneWorker : SavePreferencesCommit(p)
    \/ \E p \in OneWorker, t \in Credentials, b \in RecItems : SaveItemRead(p, t, b)
    \/ \E p \in OneWorker : SaveItemCommit(p)
    \/ \E p \in OneWorker, t \in Credentials \cup {NoCredentials}, b \in RecommendationBodies,
          search \in SearchScenarios, insights \in InsightsScenarios :
          GetRecommendations(p, t, b, search, insights)

SpecRec == Init /\ [][NextRec]_vars

\* the recommendation router against the upstream, for callers without an
\* account: every answer of the search and of the insights endpoint

FlakySearches ==
    SearchScenarios
    \cup { [book |-> UpstreamJson(JNull), movie |-> UpstreamJson(AsResults(<<>>)),
            place |-> UpstreamJson(JObj([error |-> JStr("rate limited")]))],
           [book |-> UpstreamNoJson, movie |-> UpstreamNotOk, place |-> Found("E-place")],
           \* an entity id that is a number
           [book |-> UpstreamJson(AsResults(<<JObj([entity_id |-> JNum(7)])>>)),
            movie |-> Found("E-movie"), place |-> UpstreamRaises] }

FlakyInsights ==
    InsightsScenarios
    \cup {[InsightsOk EXCEPT ![c] = a] :
             c \in DOMAIN InsightsOk,
             a \in {UpstreamNotOk, UpstreamNoJson, UpstreamJson(JNull),
                    UpstreamJson(JObj([results |-> JArr(<<>>)]))}}

\* the response of worker p has gone to its client: the worker waits for
\* the next request
Deliver(p) ==
    /\ req[p] # NoReq
    /\ Ready(p)
    /\ req' = [req EXCEPT ![p] = NoReq]
    /\ resp' = [resp EXCEPT ![p] = NoResp]
    /\ UNCHANGED <<db, now, tokens, QLOO_API_KEY>>

NextUpstream ==
    \/ \E p \in OneWorker, t \in {NoCredentials, Forged}, b \in RecommendationBodies,
          search \in FlakySearches, insights \in FlakyInsights :
          req[p] = NoReq /\ GetRecommendations(p, t, b, search, insights)
    \/ \E p \in OneWorker : Deliver(p)

SpecUpstream == Init /\ [][NextUpstream]_vars

\* the handlers that call an external service (the two of the recommendation
\* router and POST /convert) against the answers of that service
NextSearch ==
    \/ \E p \in OneWorker, t \in {NoCredentials}, b \in RecommendationBodies,
          search \in FlakySearches, insights \in InsightsScenarios :
          req[p] = NoReq /\ GetRecommendations(p, t, b, search, insights)
    \/ \E p \in OneWorker,
          search_input \in {[query |-> "dune", entity_type |-> "book"]},
          search \in {UpstreamRaises, UpstreamNotOk,
                      UpstreamJson(AsResults(<<SearchRecord("light")>>)),
                      UpstreamJson(AsResults(<<JObj([entity_id |-> JNum(7)])>>))},
          first \in {UpstreamRaises, UpstreamNotOk, UpstreamJson(JNull), EntitiesOf(<<>>),
                     EntitiesOf(<<SearchRecord("top_level")>>)},
          direct \in DirectAnswers, lookup \in LookupAnswers :
          req[p] = NoReq /\ SearchEntities(p, search_input, search, first, direct, lookup)
    \/ \E p \in OneWorker, query \in {[query |-> "a desert planet", entity_type |-> "book"]},
          service \in GenerativeAnswers :
          req[p] = NoReq /\ ConvertNaturalLanguage(p, query, service)
    \/ \E p \in OneWorker : Deliver(p)

SpecSearch == Init /\ [][NextSearch]_vars

\* POST /save on every worker, sharing the store
NextSavedRace ==
    \/ \E p \in OneWorker, a \in RecAccounts : RegisterCheck(p, a.username, a.email, a.password)
    \/ \E p \in OneWorker : RegisterCommit(p)
    \/ \E p \in Workers, t \in Credentials, b \in RecItems : SaveItemRead(p, t, b)
    \/ \E p \in Workers : SaveItemCommit(p)

SpecSavedRace == Init /\ [][NextSavedRace]_vars

\* the saved items and the preferences of two accounts: every operation
\* of the two routers that reads or writes a row of an account, the
\* requests run one after the other
NextIsolation ==
    \/ \E p \in OneWorker, a \in SavedAccounts : RegisterCheck(p, a.username, a.email, a.password)
    \/ \E p \in OneWorker : RegisterCommit(p)
    \/ \E p \in OneWorker, t \in tokens, b \in RecItems : SaveItemRead(p, t, b)
    \/ \E p \in OneWorker : SaveItemCommit(p)
    \/ \E p \in OneWorker, t \in tokens : GetSavedItems(p, t)
    \/ \E p \in OneWorker, t \in tokens, i \in {b.item_id : b \in RecItems} : RemoveSavedItemRead(p, t, i)
    \/ \E p \in OneWorker : RemoveSavedItemCommit(p)
    \/ \E p \in OneWorker, t \in tokens, i \in {b.item_id : b \in RecItems} : CheckIfSaved(p, t, i)
    \/ \E p \in OneWorker, t \in tokens, b \in PreferenceBodies : SavePreferencesRead(p, t, b)
    \/ \E p \in OneWorker : SavePreferencesCommit(p)
    \/ \E p \in OneWorker, t \in tokens : GetPreferences(p, t)

SpecIsolation == Init /\ [][NextIsolation]_vars

\* ------------------------------------------------------------- steps
\* worker p received a request of kind op and ran its first phase
Called(p, op) ==
    /\ req[p].pc = "done"
    /\ req'[p].op = op
    /\ <<req[p], resp[p]>>' # <<req[p], resp[p]>>

\* worker p ran the commit of its request of kind op
Committed(p, op) ==
    /\ req[p].pc = "commit"
    /\ req[p].op = op
    /\ req'[p].pc = "done"

Answered(p, op) == req[p].op = op /\ req[p].pc = "done"

Held(args) == \E a \in users : a.username = args.username \/ a.email = args.email

AllTokens ==
    [sub : Usernames, exp : 0..(MaxTime + ACCESS_TOKEN_EXPIRE_MINUTES), sig : {"server"}]

\* ------------------------------------------------------------- claims
\* C1: a register request for a username and an email that no account
\* holds is not rejected by the existence check, and its commit answers 200,
\* adds exactly one account with that username and email and returns a
\* bearer token that validates to the username, with which GET /me answers
\* that username and email.
C1_RegisterUnused ==
    [][\A p \in Workers :
        /\ (Called(p, "register") /\ ~Held(req'[p].args)) => req'[p].pc = "commit"
        /\ (Committed(p, "register") /\ ~Held(req[p].args)) =>
              /\ resp'[p].status = HTTP_200_OK
              /\ resp'[p].body.token_type = "bearer"
              /\ \E a \in users' :
                    /\ a \notin users /\ users' = users \cup {a}
                    /\ a.username = req[p].args.username
                    /\ a.email = req[p].args.email
              /\ \E tok \in AllTokens :
                    /\ tok = resp'[p].body.access_token
                    /\ verify_token(tok, now') = req[p].args.username
                    /\ MeResult(tok)'.status = HTTP_200_OK
                    /\ MeResult(tok)'.body.username = req[p].args.username
                    /\ MeResult(tok)'.body.email = req[p].args.email
    ]_vars

\* scenario A: alice registered and GET /me with her token answered her account
C1_Witness ==
    \E p \in Workers :
        /\ Answered(p, "me")
        /\ resp[p].status = HTTP_200_OK
        /\ resp[p].body.username = "alice"
        /\ resp[p].body.email = "a@x.com"
        /\ req[p].args.token \in tokens

\* C2: a register request whose username or whose email an account holds
\* is answered 400 "Username or email already registered" by the existence
\* check: no account is added or changed and no token is issued.
C2_RegisterConflict ==
    [][\A p \in Workers :
        (Called(p, "register") /\ Held(req'[p].args)) =>
            /\ req'[p].pc = "done"
            /\ resp'[p] = HTTPException(HTTP_400_BAD_REQUEST,
                                        "Username or email already registered")
            /\ users' = users
            /\ tokens' = tokens
    ]_vars

\* the email alone is taken: another username holds it
C2_Witness ==
    \E p \in Workers :
        /\ Answered(p, "register")
        /\ resp[p].status = HTTP_400_BAD_REQUEST
        /\ \E a \in users : a.email = req[p].args.email
        /\ \A a \in users : a.username # req[p].args.username

\* C3: no two accounts share a username or an email, and every register
\* request, the loser of a race of two included, is answered with the token
\* or with the 400 conflict, never with a server error.
C3_UniqueAndConflictOnRace ==
    /\ \A a, b \in users : (a.username = b.username \/ a.email = b.email) => a = b
    /\ \A p \in Workers :
          Answered(p, "register") =>
              resp[p].status \in {HTTP_200_OK, HTTP_400_BAD_REQUEST}

\* C4: login with the password an account registered answers 200 with a
\* token for that username; login with another password answers exactly
\* what login with an unregistered username answers.
RegisteredPassword(a, pw) ==
    \E salt \in Salts : a.hashed_password = get_password_hash(pw, salt)

C4_LoginUniform ==
    /\ \A a \in users, pw \in Passwords :
          IF RegisteredPassword(a, pw)
          THEN /\ LoginResult(a.username, pw).status = HTTP_200_OK
               /\ LoginResult(a.username, pw).body.access_token.sub = a.username
               /\ verify_token(LoginResult(a.username, pw).body.access_token, now) = a.username
          ELSE /\ LoginResult(a.username, pw).status = HTTP_401_UNAUTHORIZED
               /\ \A u \in Usernames, pw2 \in Passwords :
                     ~UserFound(u) => LoginResult(u, pw2) = LoginResult(a.username, pw)
    /\ \A p \in Workers :
          (Answered(p, "login") /\ resp[p].status # HTTP_200_OK) =>
              resp[p] = HTTPException(HTTP_401_UNAUTHORIZED, "Incorrect username or password")

\* a wrong password was refused while another username is unregistered
C4_Witness ==
    \E p \in Workers :
        /\ Answered(p, "login")
        /\ resp[p].status = HTTP_401_UNAUTHORIZED
        /\ \E a \in users :
              /\ a.username = req[p].args.username
              /\ ~RegisteredPassword(a, req[p].args.password)
        /\ \E u \in Usernames : ~UserFound(u)

\* C5: a protected operation called with a token that fails validation, or
\* whose username no account has, answers 401 and leaves the store unchanged.
ProtectedOps ==
    {"me", "save_preferences", "get_preferences", "save_item", "get_saved_items",
     "remove_saved_item", "check_if_saved"}

Unauthenticated(token) ==
    \/ verify_token(token, now) = None
    \/ ~UserFound(verify_token(token, now))

C5_ProtectedUnauthorized ==
    [][\A p \in Workers, op \in ProtectedOps :
        (Called(p, op) /\ Unauthenticated(req'[p].args.token)) =>
            /\ req'[p].pc = "done"
            /\ resp'[p].status = HTTP_401_UNAUTHORIZED
            /\ db' = db
    ]_vars

\* C8: every account has at most one row of user_preferences.
C8_OnePreferenceRow ==
    \A a \in users : Cardinality(PreferencesOf(a.id)) <= 1

\* C6: with the saves of an account run one after the other, every
\* (account, item id) pair has at most one row, and after a successful save
\* the pair has exactly one row, whose favorited flag is the one of that save.
C6_OneRowLatestFavorited ==
    /\ \A a \in users, i \in ItemIds : Cardinality(SavedOf(a.id, i)) <= 1
    /\ \A p \in Workers :
          (Answered(p, "save_item") /\ resp[p].status = HTTP_200_OK) =>
              LET item == req[p].args.item
                  rows == SavedOf(CurrentUser(req[p].args.token).id, item.item_id) IN
              /\ Cardinality(rows) = 1
              /\ \A r \in rows : r.favorited = item.favorited
              /\ resp[p].body.favorited = item.favorited

\* an item saved unfavorited was saved again, favorited, under another name
C6_Witness ==
    \E p \in Workers :
        /\ Answered(p, "save_item")
        /\ resp[p].status = HTTP_200_OK
        /\ req[p].args.item.favorited
        /\ resp[p].body.item_name # req[p].args.item.item_name

\* C7: GET /check answers is_saved true exactly when the account has a row
\* for the item id; after a successful save check answers true and GET /list
\* holds exactly one record with the item id; after a successful remove check
\* answers false and GET /list holds no record with the item id.
ListedWith(token, item_id) ==
    LET body == GetSavedItemsResult(token).body IN
    {k \in DOMAIN body : body[k].item_id = item_id}

C7_CheckFollowsRows ==
    \A p \in Workers :
        /\ (Answered(p, "check_if_saved") /\ resp[p].status = HTTP_200_OK) =>
              (resp[p].body.is_saved <=>
                  \E r \in saved_items :
                      /\ r.user_id = CurrentUser(req[p].args.token).id
                      /\ r.item_id = req[p].args.item_id)
        /\ (Answered(p, "save_item") /\ resp[p].status = HTTP_200_OK) =>
              /\ CheckIfSavedResult(req[p].args.token, req[p].args.item.item_id).body.is_saved
              /\ Cardinality(ListedWith(req[p].args.token, req[p].args.item.item_id)) = 1
        /\ (Answered(p, "remove_saved_item") /\ resp[p].status = HTTP_200_OK) =>
              /\ ~CheckIfSavedResult(req[p].args.token, req[p].args.item_id).body.is_saved
              /\ ListedWith(req[p].args.token, req[p].args.item_id) = {}

\* scenario B: m1 was saved and then removed, and check answers false
C7_Witness ==
    \E p \in Workers :
        /\ Answered(p, "remove_saved_item")
        /\ resp[p].status = HTTP_200_OK
        /\ req[p].args.item_id = "m1"
        /\ CheckIfSavedResult(req[p].args.token, "m1") =
               Response(HTTP_200_OK, [is_saved |-> FALSE])

\* C9: for every list of upstream records (JSON objects), the resolver returns the same
\* entity id for the bare array and for the object {results: [...]} of that
\* list; with an API key set it is the entity_id of the first record (None
\* when the list is empty or the first record has none).
FirstEntityId(items) ==
    IF items = <<>> THEN None
    ELSE IF items[1].kind = "object" /\ "entity_id" \in DOMAIN items[1].fields
    THEN ToPython(items[1].fields.entity_id)
    ELSE None

ResolvedList(p) ==
    LET data == req[p].args.upstream.json.value IN
    IF data.kind = "array" THEN data.items ELSE data.fields.results.items

\* the answer is a list of records (JSON objects), in either shape
IsRecordList(upstream) ==
    /\ upstream.kind = "response" /\ upstream.ok /\ ~upstream.json.exc
    /\ \E l \in SearchLists :
          /\ \A i \in DOMAIN l : l[i].kind = "object"
          /\ upstream.json.value \in {AsArray(l), AsResults(l)}

C9_SameIdBothShapes ==
    \A p \in Workers :
        (Answered(p, "fetch_entity_id") /\ IsRecordList(req[p].args.upstream)) =>
            /\ resp[p].body.entity_id =
                   fetch_entity_id(QLOO_API_KEY, UpstreamJson(AsArray(ResolvedList(p))))
            /\ resp[p].body.entity_id =
                   fetch_entity_id(QLOO_API_KEY, UpstreamJson(AsResults(ResolvedList(p))))
            /\ Truthy(QLOO_API_KEY) => resp[p].body.entity_id = FirstEntityId(ResolvedList(p))

\* the object shape was resolved to the id of the first of two records
C9_Witness ==
    \E p \in Workers :
        /\ Answered(p, "fetch_entity_id")
        /\ IsRecordList(req[p].args.upstream)
        /\ req[p].args.upstream.json.value.kind = "object"
        /\ Len(ResolvedList(p)) = 2
        /\ resp[p].body.entity_id = "E2"

\* C10: the effective value of each of book_name, movie_name, place_name,
\* age and gender of a recommendation request is the value the request
\* supplies, else the stored preference of the authenticated account, else
\* absent.  An empty string counts as not supplied.
Supplied(preference, k) == k \in DOMAIN preference /\ Truthy(preference[k])

ExpectedPreference(token, preference, k) ==
    IF Supplied(preference, k) THEN preference[k]
    ELSE IF Authenticate(token).status # HTTP_200_OK THEN None
    ELSE IF PreferencesOf(CurrentUser(token).id) = {} THEN None
    ELSE (CHOOSE r \in PreferencesOf(CurrentUser(token).id) : TRUE).columns[k]

C10_EffectivePreferences ==
    \A p \in Workers :
        Answered(p, "get_recommendations") =>
            \A k \in PreferenceKeys :
                req[p].pending.effective[k] =
                    ExpectedPreference(req[p].args.token, req[p].args.preference, k)

\* C11: a recommendation request of an authenticated account carries the
\* item id of every favorited saved item of the account in its signal set,
\* and with at least one favorite it is not answered with the "no signals"
\* result.
FavoritesOf(token) ==
    {r.item_id : r \in {q \in saved_items :
                           q.user_id = CurrentUser(token).id /\ q.favorited}}

SignalSet(p) == {req[p].pending.entity_ids[i] : i \in DOMAIN req[p].pending.entity_ids}

C11_FavoritesInSignals ==
    \A p \in Workers :
        (/\ Answered(p, "get_recommendations")
         /\ Authenticate(req[p].args.token).status = HTTP_200_OK) =>
            /\ FavoritesOf(req[p].args.token) \subseteq SignalSet(p)
            /\ FavoritesOf(req[p].args.token) # {} =>
                   "message" \notin DOMAIN resp[p].body

\* C12: a recommendation request whose signal set is empty is answered 200
\* with the four lists empty and the message "API key not configured..."
\* exactly when no API key is set, "No preferences found..." otherwise, and
\* issues no insights query.
C12_NoSignalsResult ==
    \A p \in Workers :
        (Answered(p, "get_recommendations") /\ SignalSet(p) = {}) =>
            /\ resp[p].status = HTTP_200_OK
            /\ DOMAIN resp[p].body =
                   {"book_recs", "popular_books", "movie_recs", "tv_show_recs", "message"}
            /\ \A c \in {"book_recs", "popular_books", "movie_recs", "tv_show_recs"} :
                   resp[p].body[c] = JArr(<<>>)
            /\ resp[p].body.message =
                   (IF QLOO_API_KEY = None
                    THEN "API key not configured. Please set QLOO_API_KEY in your .env file."
                    ELSE "No preferences found. Please set your preferences first.")
            /\ req[p].pending.calls = <<>>

\* scenario C: a key is set, a name was given, nothing resolved
C12_Witness ==
    \E p \in Workers :
        /\ Answered(p, "get_recommendations")
        /\ SignalSet(p) = {}
        /\ QLOO_API_KEY # None
        /\ Truthy(req[p].pending.effective.book_name)
        /\ resp[p].body.message = "No preferences found. Please set your preferences first."

\* C13: a recommendation request with a non-empty signal set of entity ids
\* is answered 200 with exactly the four lists book_recs, popular_books,
\* movie_recs and tv_show_recs; the list of a category whose query failed is
\* empty and every other list holds the entities its own query returned.
CategoryOf(key) ==
    CASE key = "book_recs" -> "book" [] key = "popular_books" -> "popular"
      [] key = "movie_recs" -> "movie" [] OTHER -> "tv_show"

\* the query of a category delivered its entities
CategoryOk(upstream) == \E c \in DOMAIN InsightsOk : upstream = InsightsOk[c]

C14_NoServerErrorOnUpstreamFailure ==
    \A p \in Workers :
        /\ Answered(p, "search_entities") =>
              /\ resp[p].status = HTTP_200_OK
              /\ DOMAIN resp[p].body = {"results"}
        /\ Answered(p, "get_recommendations") =>
              /\ resp[p].status = HTTP_200_OK
              /\ {"book_recs", "popular_books", "movie_recs", "tv_show_recs"}
                     \subseteq DOMAIN resp[p].body

\* C15: the normalization of a record is total and takes, for each
\* attribute, the first candidate field in the fixed order that is present
\* and not null; a record with no field gives all attributes null, and a
\* null in the place of a candidate or of the nested properties, external
\* or image object still gives a normalized record.
\* the field k of d, null when d is no object or has no such field
Field(d, k) == IF d.kind = "object" /\ k \in DOMAIN d.fields THEN d.fields[k] ELSE JNull

RECURSIVE FirstNonNull(_)
FirstNonNull(candidates) ==
    IF candidates = <<>> THEN JNull
    ELSE IF Head(candidates) # JNull THEN Head(candidates)
    ELSE FirstNonNull(Tail(candidates))

ExpectedImage(d) ==
    FirstNonNull(<<Field(d, "image_url"), Field(d, "image"), Field(d, "cover_image"),
                   Field(Field(Field(d, "properties"), "image"), "url")>>)

ExpectedProperty(d, k) == FirstNonNull(<<Field(d, k), Field(Field(d, "properties"), k)>>)

ExpectedGoodreads(d) ==
    FirstNonNull(<<Field(d, "goodreads_id"), Field(Field(d, "external"), "goodreads")>>)

\* the direct search delivered one record and no lookup replaced it
NormalizedAlone(p) ==
    /\ Answered(p, "search_entities")
    /\ req[p].args.search = UpstreamNotOk
    /\ req[p].args.lookup = UpstreamNotOk
    /\ \E shape \in SearchShapes :
          req[p].args.direct = UpstreamJson(AsResults(<<SearchRecord(shape)>>))

C15_NormalizeTotal ==
    \A p \in Workers :
        NormalizedAlone(p) =>
            LET d == req[p].args.direct.json.value.fields.results.items[1]
                results == resp[p].body.results IN
            /\ resp[p].status = HTTP_200_OK
            /\ results.kind = "array"
            /\ Len(results.items) = 1
            /\ LET entity == results.items[1].fields IN
               /\ entity.image = ExpectedImage(d)
               /\ entity.image_url = ExpectedImage(d)
               /\ \A k \in PropertyKeys : entity.properties.fields[k] = ExpectedProperty(d, k)
               /\ Field(entity.external, "goodreads") = ExpectedGoodreads(d)

\* C16: when the search finds the entity E1 and the lookup by its id raises,
\* answers a non-OK status or answers no entity, the response of POST /search
\* still holds the entity E1, built from the search result.
LookupFailed(upstream) == upstream \in {UpstreamRaises, UpstreamNotOk, EntitiesOf(<<>>)}

C16_FallbackToSearchResult ==
    \A p \in Workers :
        (/\ Answered(p, "search_entities")
         /\ QLOO_API_KEY # None
         /\ req[p].args.search = UpstreamJson(AsResults(<<SearchRecord("light")>>))
         /\ req[p].args.direct = req[p].args.search
         /\ LookupFailed(req[p].args.first)
         /\ req[p].args.lookup = req[p].args.first) =>
            /\ resp[p].status = HTTP_200_OK
            /\ resp[p].body.results.kind = "array"
            /\ \E i \in DOMAIN resp[p].body.results.items :
                  LET entity == resp[p].body.results.items[i].fields IN
                  /\ entity.entity_id = JStr("E1")
                  /\ entity.name = JStr("Dune")

\* C17: whatever text the generative service delivers, POST /convert answers
\* 200; success is true exactly when the text parses to an object with an
\* entity_name, an entity_type and a numeric confidence of at least 0.3, and
\* then the response carries that name, type and confidence; every other
\* text gives success = false.
WellFormed(service) ==
    /\ service.fence # "plain"
    /\ service.payload.kind = "object"
    /\ Field(service.payload, "entity_name").kind = "str"
    /\ Field(service.payload, "entity_name") # JStr("")
    /\ Field(service.payload, "entity_type").kind = "str"
    /\ Field(service.payload, "entity_type") # JStr("")
    /\ Field(service.payload, "confidence").kind = "number"

C17_ConvertNeverErrors ==
    \A p \in Workers :
        (Answered(p, "convert_natural_language") /\ req[p].args.service.kind = "text") =>
            LET service == req[p].args.service
                accepted == /\ WellFormed(service)
                            /\ service.payload.fields.confidence.n >= ConfidenceThreshold IN
            /\ resp[p].status = HTTP_200_OK
            /\ resp[p].body.success = accepted
            /\ accepted =>
                  /\ resp[p].body.entity_name = service.payload.fields.entity_name
                  /\ resp[p].body.entity_type = service.payload.fields.entity_type
                  /\ resp[p].body.confidence = service.payload.fields.confidence

\* C18: with the saves of an account on several workers interleaved, every
\* (account, item id) pair still has at most one row, and no save request
\* with a valid token and body is answered with an error.
C18_OneRowOnInterleavedSaves ==
    /\ \A a \in users, i \in ItemIds : Cardinality(SavedOf(a.id, i)) <= 1
    /\ \A p \in Workers :
          (/\ Answered(p, "save_item")
           /\ SaveItemGuard(req[p].args.token, req[p].args.item).status = HTTP_200_OK) =>
              resp[p].status = HTTP_200_OK

\* C19: fetch_entity_id, get_insights and get_popular_books never raise:
\* fetch_entity_id returns None without an API key and on every failing
\* answer of the upstream, and the two others return [] on every failing
\* answer, for every list of entity ids they are called with.
AnswerFailed(upstream) ==
    \/ upstream \in {UpstreamRaises, UpstreamNotOk, UpstreamNoJson}
    \/ upstream.json.value.kind # "object"
    \/ Field(upstream.json.value, "results").kind # "object"

C19_NeverRaises ==
    \A p \in Workers :
        /\ Answered(p, "fetch_entity_id") =>
              /\ resp[p].status = HTTP_200_OK
              /\ (\/ QLOO_API_KEY = None
                  \/ req[p].args.upstream \in {UpstreamRaises, UpstreamNotOk, UpstreamNoJson}
                  \/ req[p].args.upstream.json.value.kind \notin {"object", "array"})
                    => resp[p].body.entity_id = None
        /\ (Answered(p, "get_insights") \/ Answered(p, "get_popular_books")) =>
              /\ resp[p].status = HTTP_200_OK
              /\ AnswerFailed(req[p].args.upstream) => resp[p].body.value = JArr(<<>>)

\* C20: a remove of an item id the calling account has not saved answers 404
\* and changes no row; a successful remove deletes the rows of the calling
\* account for that item id and no other row; a save of an item the account
\* has already saved changes nothing but the favorited flag of its row.
C20_RemoveAndResaveFrame ==
    [][\A p \in Workers :
        /\ (/\ Called(p, "remove_saved_item")
            /\ Authenticate(req'[p].args.token).status = HTTP_200_OK
            /\ SavedOf(CurrentUser(req'[p].args.token).id, req'[p].args.item_id) = {}) =>
              /\ req'[p].pc = "done"
              /\ resp'[p].status = HTTP_404_NOT_FOUND
              /\ saved_items' = saved_items
        /\ (Committed(p, "remove_saved_item") /\ resp'[p].status = HTTP_200_OK) =>
              LET gone == SavedOf(CurrentUser(req[p].args.token).id, req[p].args.item_id) IN
              /\ gone # {}
              /\ saved_items' = saved_items \ gone
        /\ (/\ Called(p, "save_item")
            /\ SaveItemGuard(req'[p].args.token, req'[p].args.item).status = HTTP_200_OK
            /\ SavedOf(CurrentUser(req'[p].args.token).id, req'[p].args.item.item_id) # {}) =>
              /\ saved_items' = saved_items
              /\ req'[p].pc = "done" =>
                    \E r \in saved_items : resp'[p].body = SavedItemResponse(r)
        /\ (/\ Committed(p, "save_item")
            /\ SavedOf(CurrentUser(req[p].args.token).id, req[p].args.item.item_id) # {}) =>
              \E r \in SavedOf(CurrentUser(req[p].args.token).id, req[p].args.item.item_id) :
                  LET row == [r EXCEPT !.favorited = req[p].args.item.favorited] IN
                  /\ saved_items' = (saved_items \ {r}) \cup {row}
                  /\ resp'[p] = Response(HTTP_200_OK, SavedItemResponse(row))
    ]_vars

\* alice's remove of m1 was answered 404 while bob has m1 saved, and her
\* own row of b1 is still there
C20_Witness ==
    \E p \in Workers :
        /\ Answered(p, "remove_saved_item")
        /\ resp[p].status = HTTP_404_NOT_FOUND
        /\ req[p].args.item_id = "m1"
        /\ \E r \in saved_items : r.item_id = "m1" /\ r.user_id # CurrentUser(req[p].args.token).id
        /\ \E r \in saved_items : r.item_id = "b1" /\ r.user_id = CurrentUser(req[p].args.token).id

\* the rows of a table that belong to another account than id
RowsOfOthers(rows, id) == {r \in rows : r.user_id # id}

\* the rows of a table that belong to the account id
RowsOf(rows, id) == {r \in rows : r.user_id = id}

\* worker p took a step, read or commit, of a request of kind op
Step(p, op) == Called(p, op) \/ Committed(p, op)

\* the three answers of the reading operations, each computed from the
\* rows of one account only
ListFrom(own) == [i \in 1..Len(ById(own)) |-> SavedItemResponse(ById(own)[i])]
CheckFrom(own, item_id) == [is_saved |-> \E r \in own : r.item_id = item_id]
PreferencesFrom(own) ==
    IF own = {} THEN EmptyDict
    ELSE (CHOOSE r \in own : \A q \in own : r.id <= q.id).columns

\* C21: saved items and preferences are isolated per account. Every step
\* of a save, a remove or a POST /preferences issued with the token of an
\* account leaves the saved-item rows and the preference rows of every other
\* account as they are (none created, changed or deleted); GET /list,
\* GET /check and GET /preferences issued with the token of an account answer
\* from the rows of that account alone, so that an item id saved by another
\* account does not make check answer true.
C21_AccountIsolation ==
    [][\A p \in Workers :
        /\ \A op \in {"save_item", "remove_saved_item", "save_preferences"} :
              (Step(p, op) /\ Authenticate(req'[p].args.token).status = HTTP_200_OK) =>
                  LET id == CurrentUser(req'[p].args.token).id IN
                  /\ RowsOfOthers(saved_items', id) = RowsOfOthers(saved_items, id)
                  /\ RowsOfOthers(user_preferences', id) = RowsOfOthers(user_preferences, id)
                  /\ \A r \in (saved_items' \ saved_items) \cup (saved_items \ saved_items') :
                        r.user_id = id
                  /\ \A r \in (user_preferences' \ user_preferences)
                                \cup (user_preferences \ user_preferences') : r.user_id = id
        /\ \A op \in {"get_saved_items", "check_if_saved", "get_preferences"} :
              (Called(p, op) /\ Authenticate(req'[p].args.token).status = HTTP_200_OK) =>
                  LET id == CurrentUser(req'[p].args.token).id IN
                  /\ db' = db
                  /\ resp'[p].status = HTTP_200_OK
                  /\ op = "get_saved_items" =>
                        resp'[p].body = ListFrom(RowsOf(saved_items, id))
                  /\ op = "check_if_saved" =>
                        resp'[p].body = CheckFrom(RowsOf(saved_items, id), req'[p].args.item_id)
                  /\ op = "get_preferences" =>
                        resp'[p].body = PreferencesFrom(RowsOf(user_preferences, id))
    ]_vars

\* a check of m1 with the token of one account was answered false while
\* the other account has m1 saved, both accounts have a preferences row, and
\* two saved-item rows have been inserted so far
C21_Witness ==
    \E p \in Workers :
        /\ Answered(p, "check_if_saved")
        /\ resp[p].status = HTTP_200_OK
        /\ resp[p].body.is_saved = FALSE
        /\ req[p].args.item_id = "m1"
        /\ \E r \in saved_items : r.item_id = "m1" /\ r.user_id # CurrentUser(req[p].args.token).id
        /\ \A u \in users : PreferencesOf(u.id) # {}
        /\ Cardinality(users) = 2
        /\ nextId.saved_items > 2
====
